---- MODULE Spec2Model ----
(***************************************************************************)
(* Model of req_stats/middleware.py: QueryStats (the per-request query     *)
(* recorder), Metrics (the per-request bag) and RequestLoggingMiddleware.  *)
(*                                                                         *)
(* Python values are encoded as follows.  A Django setting or an attribute *)
(* that may be missing is a sequence: <<>> when it is not defined, <<v>>   *)
(* when it is.  Python's None among integers is PyNone, among strings the  *)
(* string "None".  A dict is a function; an insertion-ordered dict that is *)
(* later sorted is a sequence of its items in insertion order.  Times are  *)
(* integers in units of 0.001 ms, so round(x, 3) of a time in ms is exact. *)
(***************************************************************************)
EXTENDS Integers, Sequences, FiniteSets, TLC

\* ----------------------------------------------------------------- bounds
NumSlots == 2       \* requests that may be in flight / served by turns
MaxConns == 2       \* most connections the registry holds
MaxStmts == 2       \* most statements one handler run executes
MaxDetailStmts == 5 \* the same where the diagnostics detail is examined
MaxCalls == 3       \* most calls of a recorder examined on its own

Slots == 1..NumSlots

\* -------------------------------------------------------------- constants
QUERY_COUNT == "db_query_count"
QUERY_TIME == "db_query_time_ms"
REQUEST_TIME == "duration_ms"
ALL_QUERY_DETAILS == "db_query_details"

INFO == 20
WARNING == 30
ERROR == 40
PyNone == -1
NoneStr == "None"

\* ------------------------------------------------------ Python primitives
\* getattr(settings, name, default)
Getattr(s, name, default) == IF s[name] = <<>> THEN default ELSE s[name][1]

\* truth value of an integer-or-None (if self._level: ...)
Truthy(v) == v # PyNone /\ v # 0

\* dict.get(key, default)
DictGet(d, k, default) == IF k \in DOMAIN d THEN d[k] ELSE default

\* d[key] = value
DictPut(d, k, v) == [x \in (DOMAIN d) \cup {k} |-> IF x = k THEN v ELSE d[x]]

\* d.update(e)
DictUpdate(d, e) ==
    [x \in (DOMAIN d) \cup (DOMAIN e) |-> IF x \in DOMAIN e THEN e[x] ELSE d[x]]

EmptyDict == <<>>

\* round(x, 2) of a time in ms: to the nearest multiple of 10 units, ties to
\* the even multiple (Python 3 rounds half to even)
Round2(x) ==
    LET q == x \div 10
        r == x % 10
    IN  IF r < 5 THEN 10 * q
        ELSE IF r > 5 THEN 10 * (q + 1)
        ELSE IF q % 2 = 0 THEN 10 * q ELSE 10 * (q + 1)

RECURSIVE SumSeq(_)
SumSeq(s) == IF s = <<>> THEN 0 ELSE s[1] + SumSeq(Tail(s))

\* the position at which sorted(..., key=..., reverse=True) puts an item whose
\* key is k when it is added to the already sorted items before it: after
\* every item whose key is >= k (the sort is stable)
RECURSIVE InsertDesc(_, _, _)
InsertDesc(sorted, item, key) ==
    IF sorted = <<>> THEN <<item>>
    ELSE IF sorted[1][key] >= item[key]
         THEN <<sorted[1]>> \o InsertDesc(Tail(sorted), item, key)
         ELSE <<item>> \o sorted

RECURSIVE SortDescFrom(_, _, _)
SortDescFrom(items, acc, key) ==
    IF items = <<>> THEN acc
    ELSE SortDescFrom(Tail(items), InsertDesc(acc, items[1], key), key)

\* sorted(items, key=lambda x: x.<key>, reverse=True)
SortedDesc(items, key) == SortDescFrom(items, <<>>, key)

\* ----------------------------------------------------------- QueryStats
\* QueryStats.__init__
NewQueryStats(track_details) ==
    [query_durations |-> <<>>, queries |-> <<>>, track_details |-> track_details]

\* index of sql in the queries dict, 0 when absent
QueryIndex(queries, sql) ==
    IF \E i \in 1..Len(queries) : queries[i].sql = sql
    THEN CHOOSE i \in 1..Len(queries) : queries[i].sql = sql
    ELSE 0

StackIndex(stacks, stack_str) ==
    IF \E i \in 1..Len(stacks) : stacks[i].stack = stack_str
    THEN CHOOSE i \in 1..Len(stacks) : stacks[i].stack = stack_str
    ELSE 0

\* query_details.stacks[stack_str] = stacks.get(stack_str, 0) + 1
BumpStack(stacks, stack_str) ==
    LET i == StackIndex(stacks, stack_str)
    IN  IF i = 0 THEN Append(stacks, [stack |-> stack_str, n |-> 1])
        ELSE [stacks EXCEPT ![i].n = @ + 1]

\* detail tracking that counts the call site of a statement's first
\* execution only
TrackDetailsFirstSiteOnly(queries, sql, stack_str) ==
    LET i == QueryIndex(queries, sql)
    IN  IF i = 0
        THEN Append(queries, [sql |-> sql, total_number |-> 1,
                              stacks |-> BumpStack(<<>>, stack_str)])
        ELSE [queries EXCEPT ![i].total_number = @ + 1]

\* lines 28-34: the detail record of sql, created on first use
TrackDetails(queries, sql, stack_str) ==
    LET i == QueryIndex(queries, sql)
    IN  IF i = 0
        THEN Append(queries, [sql |-> sql, total_number |-> 1,
                              stacks |-> BumpStack(<<>>, stack_str)])
        ELSE [queries EXCEPT ![i].total_number = @ + 1,
                             ![i].stacks = BumpStack(@, stack_str)]

\* a recorder that appends the duration only when execute returns
QueryStatsCallNoFinally(qs, sql, stack_str, duration, ok) ==
    [qs EXCEPT
        !.queries = IF qs.track_details THEN TrackDetails(@, sql, stack_str) ELSE @,
        !.query_durations = IF ok THEN Append(@, duration) ELSE @]

\* QueryStats.__call__: the recorder after one statement that took
\* `duration`; ok tells whether execute returned (TRUE) or raised (FALSE).
\* The duration is appended in the finally clause, in both cases.
QueryStatsCall(qs, sql, stack_str, duration, ok) ==
    [qs EXCEPT
        !.queries = IF qs.track_details THEN TrackDetails(@, sql, stack_str) ELSE @,
        !.query_durations = Append(@, duration)]

\* QueryStats.query_count
query_count(qs) == Len(qs.query_durations)

\* QueryStats.all_queries
all_queries(qs) == qs.queries

\* QueryStats.total_duration: the sum in ms rounded to 3 decimals, which is
\* the sum itself in units of 0.001 ms
total_duration(qs) == SumSeq(qs.query_durations)

\* ------------------------------------------------- errors and log lines
KeyError(k) == [type |-> "KeyError", arg |-> k]
TypeError(what) == [type |-> "TypeError", arg |-> what]
MiddlewareNotUsed == [type |-> "MiddlewareNotUsed", arg |-> ""]

Ok(v) == [err |-> <<>>, val |-> v]
Fail(e) == [err |-> <<e>>, val |-> <<>>]

\* a recorder that swallows the error of execute and returns None
QueryStatsInvokeSwallows(qs, call, stack_str, duration, outcome) ==
    [qs |-> QueryStatsCall(qs, call.sql, stack_str, duration, outcome.err = <<>>),
     passed |-> << call >>,
     returned |-> IF outcome.err = <<>> THEN <<outcome.val>> ELSE <<NoneStr>>,
     raised |-> <<>>]

\* QueryStats.__call__ as its caller sees it. call is [sql, params, many,
\* context]; outcome is what execute does with the arguments it is passed:
\* Ok(result) or Fail(error). passed holds the arguments of each call of
\* execute (line 36), returned the value returned, raised the error that left
\* the call; qs is the recorder when the call is left, the finally clause
\* (lines 37-39) having run.
QueryStatsInvoke(qs, call, stack_str, duration, outcome) ==
    [qs |-> QueryStatsCall(qs, call.sql, stack_str, duration, outcome.err = <<>>),
     passed |-> << [sql |-> call.sql, params |-> call.params,
                    many |-> call.many, context |-> call.context] >>,
     returned |-> IF outcome.err = <<>> THEN <<outcome.val>> ELSE <<>>,
     raised |-> outcome.err]

\* -------------------------------------------------------------- Metrics
\* The bag's dict keeps its items in insertion order: it is the sequence of
\* its items [k, v]; storing under a key it holds keeps the key's place.

\* Metrics.__init__
NewMetrics == EmptyDict

\* Metrics.LOGGABLE_METRICS
LOGGABLE_METRICS == {QUERY_COUNT, QUERY_TIME, REQUEST_TIME}

\* the place of key k among the items, 0 when the bag does not hold it
ItemIndex(m, k) ==
    IF \E i \in 1..Len(m) : m[i].k = k
    THEN CHOOSE i \in 1..Len(m) : m[i].k = k
    ELSE 0

\* Metrics.put
put(m, k, v) ==
    LET i == ItemIndex(m, k)
    IN  IF i = 0 THEN Append(m, [k |-> k, v |-> v]) ELSE [m EXCEPT ![i].v = v]

\* Metrics.get: self._metrics[key], a KeyError when the key was never put
get(m, k) ==
    LET i == ItemIndex(m, k)
    IN  IF i = 0 THEN Fail(KeyError(k)) ELSE Ok(m[i].v)

\* Metrics.get_all: the dict itself
get_all(m) ==
    [x \in {m[i].k : i \in 1..Len(m)} |-> m[ItemIndex(m, x)].v]

\* the order of Python's string comparison on the keys a bag may hold
KeyRank(k) ==
    CASE k = QUERY_COUNT -> 1
      [] k = ALL_QUERY_DETAILS -> 2
      [] k = QUERY_TIME -> 3
      [] k = REQUEST_TIME -> 4
      [] OTHER -> 5

\* sorted(self._metrics.items()): the items in ascending key order; an item
\* goes before the first item whose key is greater
RECURSIVE InsertAsc(_, _)
InsertAsc(sorted, item) ==
    IF sorted = <<>> THEN <<item>>
    ELSE IF KeyRank(sorted[1].k) <= KeyRank(item.k)
         THEN <<sorted[1]>> \o InsertAsc(Tail(sorted), item)
         ELSE <<item>> \o sorted

RECURSIVE SortAscFrom(_, _)
SortAscFrom(items, acc) ==
    IF items = <<>> THEN acc
    ELSE SortAscFrom(Tail(items), InsertAsc(acc, items[1]))

SortedItems(m) == SortAscFrom(m, <<>>)

\* f"{k}={v}"
KeyValue(item) == item.k \o "=" \o ToString(item.v)

\* ", ".join(parts)
RECURSIVE Join(_, _)
Join(parts, sep) ==
    IF parts = <<>> THEN ""
    ELSE IF Len(parts) = 1 THEN parts[1]
    ELSE parts[1] \o sep \o Join(Tail(parts), sep)

\* a rendering that keeps the items in insertion order
as_log_string_unsorted(m) ==
    LET items == SelectSeq(m, LAMBDA it : it.k \in LOGGABLE_METRICS)
    IN  Join([i \in 1..Len(items) |-> KeyValue(items[i])], ", ")

\* Metrics.as_log_string: the text key=value of each loggable item, the items
\* in ascending key order, joined by ", "
as_log_string(m) ==
    LET items == SelectSeq(SortedItems(m), LAMBDA it : it.k \in LOGGABLE_METRICS)
    IN  Join([i \in 1..Len(items) |-> KeyValue(items[i])], ", ")

\* one call of logger.log / logger.warning
LogLine(logger, level, kind, body) ==
    [logger |-> logger, level |-> level, kind |-> kind, body |-> body]

\* ------------------------------------------- RequestLoggingMiddleware
\* the settings __init__ reads, lines 92-107
NewMiddleware(s) ==
    [detailed_db_query_diagnostics_active |->
         Getattr(s, "REQUEST_LOGGING_DETAILED_DB_QUERY_DIAGNOSTICS_ACTIVE", TRUE),
     detailed_db_query_diagnostics_threshold |->
         Getattr(s, "REQUEST_LOGGING_DETAILED_DB_QUERY_DIAGNOSTICS_THRESHOLD", 0),
     _level |-> Getattr(s, "PDU_REQUEST_LOG_LEVEL", INFO),
     _logger |-> Getattr(s, "PDU_REQUEST_LOGGER", "root"),
     is_active |-> Getattr(s, "PDU_REQUEST_LOGGING_ACTIVE", TRUE)]

\* a startup notice sent to the logger the requests are logged to
StartupNoticeToChosen(self) ==
    LogLine(self._logger, WARNING, "start", <<self._level, self._logger, self.is_active>>)

\* the startup notice __init__ sends, lines 108-113
StartupNotice(self) ==
    LogLine("root", WARNING, "start", <<self._level, self._logger, self.is_active>>)

\* a constructor that never raises MiddlewareNotUsed
InitOutcomeAlwaysInstalled(self) == "installed"

\* lines 115-121: what the construction ends with
InitOutcome(self) == IF ~self.is_active THEN "not_used" ELSE "installed"

\* RequestLoggingMiddleware._get_level; comparing None with an integer is a
\* TypeError
GetLevel(self, status_code) ==
    IF Truthy(self._level) THEN Ok(self._level)
    ELSE IF status_code = PyNone THEN Fail(TypeError(">="))
    ELSE IF status_code >= 500 THEN Ok(ERROR)
    ELSE IF status_code >= 400 THEN Ok(WARNING)
    ELSE Ok(INFO)

\* RequestLoggingMiddleware._get_status_code: the status and the lines logged
GetStatusCode(self, response) ==
    IF response.has_status_code
    THEN [status_code |-> response.status_code, lines |-> <<>>]
    ELSE [status_code |-> PyNone,
          lines |-> <<LogLine(self._logger, WARNING, "no_status", <<response.id>>)>>]

\* the environ keys parse_log copies: log_dict key, environ key, default
EnvFields ==
    << <<"http_host", "HTTP_HOST", NoneStr>>,
       <<"protocol", "SERVER_PROTOCOL", NoneStr>>,
       <<"query_string", "QUERY_STRING", NoneStr>>,
       <<"raw_uri", "RAW_URI", NoneStr>>,
       <<"remote_address", "REMOTE_ADDR", NoneStr>>,
       <<"remote_port", "REMOTE_PORT", NoneStr>>,
       <<"request_method", "REQUEST_METHOD", "Unknown method">>,
       <<"server_name", "SERVER_NAME", NoneStr>>,
       <<"server_port", "SERVER_PORT", NoneStr>>,
       <<"server_version", "SERVER_SOFTWARE", NoneStr>>,
       <<"user_agent", "HTTP_USER_AGENT", NoneStr>>,
       <<"uri", "PATH_INFO", "Unknown URL">> >>

\* the resolver match attributes parse_log copies
ResolverFields ==
    << <<"app_names", "app_names">>,
       <<"namespaces", "namespaces">>,
       <<"resolver_function", "func">>,
       <<"route", "route">>,
       <<"url_name", "url_name">> >>

\* lines 235-251
EnvDict(resp_env) ==
    [k \in {EnvFields[i][1] : i \in 1..Len(EnvFields)} |->
        LET i == CHOOSE j \in 1..Len(EnvFields) : EnvFields[j][1] = k
        IN  DictGet(resp_env, EnvFields[i][2], EnvFields[i][3])]

\* lines 252-262
ResolverDict(resp_resolver) ==
    [k \in {ResolverFields[i][1] : i \in 1..Len(ResolverFields)} |->
        LET i == CHOOSE j \in 1..Len(ResolverFields) : ResolverFields[j][1] = k
        IN  DictGet(resp_resolver, ResolverFields[i][2], NoneStr)]

\* RequestLoggingMiddleware.parse_log.  request.__dict__["environ"] and
\* request.__dict__["resolver_match"] are KeyErrors when the request has no
\* such attribute; an empty environ and a resolver_match of None are falsy.
ParseLog(request, status_code) ==
    IF request.environ = <<>> THEN Fail(KeyError("environ"))
    ELSE IF request.resolver_match = <<>> THEN Fail(KeyError("resolver_match"))
    ELSE
        LET resp_env == request.environ[1]
            resolver_match == request.resolver_match[1]
            base == DictPut(DictPut(EmptyDict, "content_type", request.content_type),
                            "status", status_code)
            with_env == IF DOMAIN resp_env # {}
                        THEN DictUpdate(base, EnvDict(resp_env)) ELSE base
            with_res == IF ~resolver_match.is_none
                        THEN DictUpdate(with_env, ResolverDict(resolver_match.dict))
                        ELSE with_env
        IN  Ok(with_res)

\* lines 207-222: the lines of one statement's call sites
RECURSIVE StackLines(_, _, _)
StackLines(self, level, stacks) ==
    IF stacks = <<>> THEN <<>>
    ELSE << LogLine(self._logger, level, "location_count", <<stacks[1].n>>),
            LogLine(self._logger, level, "location_stack", <<stacks[1].stack>>) >>
         \o StackLines(self, level, Tail(stacks))

\* statement lines for the statements that reach the threshold
RECURSIVE QueryLinesAtLeast(_, _, _)
QueryLinesAtLeast(self, level, items) ==
    IF items = <<>> THEN <<>>
    ELSE (IF items[1].total_number >= self.detailed_db_query_diagnostics_threshold
          THEN << LogLine(self._logger, level, "query",
                          <<items[1].total_number, items[1].sql>>) >>
               \o StackLines(self, level, SortedDesc(items[1].stacks, "n"))
          ELSE <<>>)
         \o QueryLinesAtLeast(self, level, Tail(items))

\* lines 207-214: the statement lines, each followed by its call sites
RECURSIVE QueryLines(_, _, _)
QueryLines(self, level, items) ==
    IF items = <<>> THEN <<>>
    ELSE (IF items[1].total_number > self.detailed_db_query_diagnostics_threshold
          THEN << LogLine(self._logger, level, "query",
                          <<items[1].total_number, items[1].sql>>) >>
               \o StackLines(self, level, SortedDesc(items[1].stacks, "n"))
          ELSE <<>>)
         \o QueryLines(self, level, Tail(items))

\* RequestLoggingMiddleware.do_logging: the lines logged, and the error the
\* call ends with (if any)
DoLogging(self, request, status_code, metrics, response_content_type) ==
    LET parsed == ParseLog(request, status_code)
    IN
    IF parsed.err # <<>> THEN [err |-> parsed.err, lines |-> <<>>]
    ELSE
    LET log_dict == DictPut(DictUpdate(parsed.val, get_all(metrics)),
                            "response_content_type", response_content_type)
    IN
    IF "request_method" \notin DOMAIN log_dict
    THEN [err |-> <<KeyError("request_method")>>, lines |-> <<>>]
    ELSE IF "uri" \notin DOMAIN log_dict
    THEN [err |-> <<KeyError("uri")>>, lines |-> <<>>]
    ELSE
    LET level == GetLevel(self, status_code)
    IN
    IF level.err # <<>> THEN [err |-> level.err, lines |-> <<>>]
    ELSE
    LET first == << LogLine(self._logger, level.val, "request",
                            << log_dict["request_method"], log_dict["uri"],
                               log_dict["status"], as_log_string(metrics) >>) >>
        header == << LogLine(self._logger, level.val, "detail_header", <<>>) >>
    IN
    IF ~self.detailed_db_query_diagnostics_active
    THEN [err |-> <<>>, lines |-> first]
    ELSE
    LET details == get(metrics, ALL_QUERY_DETAILS)
    IN
    IF details.err # <<>>
    THEN [err |-> details.err, lines |-> first \o header]
    ELSE [err |-> <<>>,
          lines |-> first \o header
                    \o QueryLines(self, level.val,
                                  SortedDesc(details.val, "total_number"))]

\* ------------------------------------------------------------- inputs
\* the logger PDU_REQUEST_LOGGER may name
AppLogger == "app"

\* django.conf.settings, as the deployments of the model configure it
SettingsSpace ==
    [PDU_REQUEST_LOGGING_ACTIVE : {<<>>, <<TRUE>>, <<FALSE>>},
     PDU_REQUEST_LOG_LEVEL : {<<>>, <<PyNone>>, <<WARNING>>},
     PDU_REQUEST_LOGGER : {<<>>, <<AppLogger>>},
     DB_INSTRUMENTATION_ENABLED : {<<>>, <<FALSE>>},
     REQUEST_LOGGING_DETAILED_DB_QUERY_DIAGNOSTICS_ACTIVE : {<<>>, <<FALSE>>},
     REQUEST_LOGGING_DETAILED_DB_QUERY_DIAGNOSTICS_THRESHOLD : {<<>>}]

\* settings that define nothing: every toggle takes its default
DefaultSettings ==
    [PDU_REQUEST_LOGGING_ACTIVE |-> <<>>,
     PDU_REQUEST_LOG_LEVEL |-> <<>>,
     PDU_REQUEST_LOGGER |-> <<>>,
     DB_INSTRUMENTATION_ENABLED |-> <<>>,
     REQUEST_LOGGING_DETAILED_DB_QUERY_DIAGNOSTICS_ACTIVE |-> <<>>,
     REQUEST_LOGGING_DETAILED_DB_QUERY_DIAGNOSTICS_THRESHOLD |-> <<>>]

\* request.environ: a WSGI environ, one without method and path, an empty one
FullEnviron ==
    [k \in {"REQUEST_METHOD", "PATH_INFO", "HTTP_HOST", "QUERY_STRING"} |->
        CASE k = "REQUEST_METHOD" -> "GET"
          [] k = "PATH_INFO" -> "/library/books/"
          [] k = "HTTP_HOST" -> "testserver"
          [] OTHER -> ""]
PartialEnviron == [k \in {"HTTP_HOST"} |-> "testserver"]
EmptyEnviron == EmptyDict

\* request.resolver_match: None before routing, a ResolverMatch after it
NoMatch == [is_none |-> TRUE, dict |-> EmptyDict]
BookMatch ==
    [is_none |-> FALSE,
     dict |-> [k \in {"func", "route", "url_name"} |->
                  CASE k = "func" -> "BookViewSet"
                    [] k = "route" -> "library/books/"
                    [] OTHER -> "book-list"]]

\* the requests a slot may be given: the environ and the resolver_match
\* attribute may each be missing from the request's __dict__
Requests ==
    [id : {"req"},
     content_type : {"text/plain"},
     environ : {<<>>, <<EmptyEnviron>>, <<PartialEnviron>>, <<FullEnviron>>},
     resolver_match : {<<>>, <<NoMatch>>, <<BookMatch>>}]

PlainRequest ==
    [id |-> "req", content_type |-> "text/plain",
     environ |-> <<FullEnviron>>, resolver_match |-> <<BookMatch>>]

\* the responses a handler may return; every one has headers (response.get)
Responses ==
    [id : {"resp"}, has_status_code : {TRUE}, status_code : {200, 400, 404, 500},
     content_type : {"application/json"}]
    \cup
    [id : {"resp"}, has_status_code : {FALSE}, status_code : {PyNone},
     content_type : {"application/json"}]

OkResponse ==
    [id |-> "resp", has_status_code |-> TRUE, status_code |-> 200,
     content_type |-> "application/json"]

\* the errors a handler may raise, and the error of a failing attach
HandlerErrors ==
    {[type |-> "ValueError", arg |-> "handler"],
     [type |-> "DatabaseError", arg |-> "handler"]}
AttachError == [type |-> "AttachError", arg |-> "execute_wrapper"]

Sqls == {"SELECT 1"}
CallSites == {"A"}
Durations == {1, 2}
Overheads == {3, 4}

\* a wrapper somebody else installed before the request
Outer == 0

\* -------------------------------------------------------------- state
VARIABLES
    settings,   \* django.conf.settings
    mw,         \* the middleware: [state, self, configured]
    startup,    \* the lines __init__ logged
    conns,      \* connections.all(): the connections 1..conns
    wrappers,   \* wrappers[c]: connection c's execute_wrappers list
    rq          \* rq[t]: the call of the middleware running in slot t

vars == <<settings, mw, startup, conns, wrappers, rq>>

\* a slot with no call in it
IdleCall ==
    [pc |-> "idle",
     request |-> <<>>,
     metrics |-> NewMetrics,
     instrumented |-> FALSE,
     query_stats |-> NewQueryStats(FALSE),
     entered |-> 0,               \* contexts on the ExitStack
     pending |-> <<>>,            \* the response the handler returned
     exc |-> <<>>,                \* the error in flight
     status_code |-> PyNone,
     logs |-> <<>>,               \* the lines logged for this request
     result |-> <<>>,             \* what the call returned
     raised |-> <<>>,             \* what the call raised
     \* history of the call, for the properties
     before |-> <<>>,             \* the wrappers when the call started
     handler_calls |-> <<>>,      \* the arguments of each handler invocation
     executed |-> <<>>,           \* the statements the handler executed
     issued |-> <<>>,             \* their texts and call sites
     handler_raised |-> <<>>,     \* the error the handler raised
     attached |-> <<>>,           \* the connections attached to, in order
     failed_at |-> 0,             \* the connection whose attach failed
     popped |-> <<>>,             \* each detach: the connection, the wrapper removed
     intercepts |-> <<>>]         \* each call made of the recorder on its own

InitWith(S, C, B) ==
    /\ settings \in S
    /\ mw = [state |-> "none", self |-> NewMiddleware(DefaultSettings),
             \* history: the settings in force when __init__ ran
             configured |-> DefaultSettings]
    /\ startup = <<>>
    /\ conns \in C
    /\ \E base \in B : wrappers = [c \in 1..MaxConns |-> base]
    /\ rq = [t \in Slots |-> IdleCall]

\* ------------------------------------------------------------- actions
\* RequestLoggingMiddleware.__init__
Construct ==
    /\ mw.state = "none"
    /\ LET self == NewMiddleware(settings)
       IN  /\ startup' = Append(startup, StartupNotice(self))
           /\ mw' = [state |-> InitOutcome(self), self |-> self,
                     configured |-> settings]
    /\ UNCHANGED <<settings, conns, wrappers, rq>>

\* a setting is given another value once the middleware has been constructed
\* (override_settings, or an assignment to django.conf.settings)
ChangeSettings(s) ==
    /\ mw.state = "installed"
    /\ s # settings
    /\ settings' = s
    /\ UNCHANGED <<mw, startup, conns, wrappers, rq>>

\* lines 153-157: a call starts; the metrics bag and, with DB
\* instrumentation enabled, the recorder are created
Begin(t, request) ==
    /\ mw.state = "installed"
    /\ rq[t].pc = "idle"
    /\ LET dbi == Getattr(settings, "DB_INSTRUMENTATION_ENABLED", TRUE)
       IN  rq' = [rq EXCEPT ![t] =
                [IdleCall EXCEPT
                    !.pc = IF dbi THEN "instrumenting" ELSE "invoke",
                    !.request = <<request>>,
                    !.metrics = NewMetrics,
                    !.instrumented = dbi,
                    !.query_stats =
                        NewQueryStats(IF dbi
                                      THEN mw.self.detailed_db_query_diagnostics_active
                                      ELSE FALSE),
                    !.before = wrappers]]
    /\ UNCHANGED <<settings, mw, startup, conns, wrappers>>

\* a call starts while no other call is running
BeginAlone(t, request) ==
    /\ \A u \in Slots : rq[u].pc = "idle"
    /\ Begin(t, request)

\* conn.execute_wrapper(wrapper).__enter__: the wrapper is appended to the
\* connection's execute_wrappers
EnterWrapper(list, wrapper) == Append(list, wrapper)

\* conn.execute_wrapper(wrapper).__exit__ that removes nothing
ExitWrapperKeeps(list) == list

\* conn.execute_wrapper(wrapper).__exit__: execute_wrappers.pop()
ExitWrapper(list) == SubSeq(list, 1, Len(list) - 1)

\* line 160 for the next connection
Attach(t) ==
    /\ rq[t].pc = "instrumenting"
    /\ rq[t].entered < conns
    /\ LET c == rq[t].entered + 1
       IN  /\ wrappers' = [wrappers EXCEPT ![c] = EnterWrapper(@, t)]
           /\ rq' = [rq EXCEPT ![t].entered = c,
                               ![t].attached = Append(@, c)]
    /\ UNCHANGED <<settings, mw, startup, conns>>

\* attaching in a plain loop: the error of a failing attach leaves the call
\* at once, the contexts entered so far are not left
AttachFailLeaks(t) ==
    /\ rq[t].pc = "instrumenting"
    /\ rq[t].entered < conns
    /\ rq' = [rq EXCEPT ![t].pc = "done", ![t].raised = <<AttachError>>,
                        ![t].failed_at = rq[t].entered + 1]
    /\ UNCHANGED <<settings, mw, startup, conns, wrappers>>

\* line 160 raises for the next connection: the with statement is left with
\* the error
AttachFail(t) ==
    /\ rq[t].pc = "instrumenting"
    /\ rq[t].entered < conns
    /\ rq' = [rq EXCEPT ![t].pc = "exiting", ![t].exc = <<AttachError>>,
                        ![t].failed_at = rq[t].entered + 1]
    /\ UNCHANGED <<settings, mw, startup, conns, wrappers>>

\* lines 161 and 166: the handler is called
InvokeHandler(t) ==
    /\ \/ rq[t].pc = "instrumenting" /\ rq[t].entered = conns
       \/ rq[t].pc = "invoke"
    /\ rq' = [rq EXCEPT ![t].pc = "handling",
                        ![t].handler_calls = Append(@, rq[t].request[1])]
    /\ UNCHANGED <<settings, mw, startup, conns, wrappers>>

\* the recorders after a statement went through the wrappers of a list, one
\* call per wrapper on it
RECURSIVE RouteThrough(_, _, _, _, _, _)
RouteThrough(list, calls, sql, stack_str, duration, ok) ==
    IF list = <<>> THEN calls
    ELSE LET w == list[1]
             next == IF w \in Slots
                     THEN [calls EXCEPT ![w].query_stats =
                              QueryStatsCall(@, sql, stack_str, duration, ok)]
                     ELSE calls
         IN  RouteThrough(Tail(list), next, sql, stack_str, duration, ok)

\* the handler executes a statement on connection c, its statements being
\* at most `limit`
ExecStatementWithin(t, c, sql, stack_str, duration, ok, limit) ==
    /\ rq[t].pc = "handling"
    /\ Len(rq[t].executed) < limit
    /\ c \in 1..conns
    /\ rq' = RouteThrough(wrappers[c],
                 [rq EXCEPT ![t].executed =
                      Append(@, [duration |-> duration, ok |-> ok]),
                            ![t].issued =
                      Append(@, [sql |-> sql, stack |-> stack_str])],
                 sql, stack_str, duration, ok)
    /\ UNCHANGED <<settings, mw, startup, conns, wrappers>>

\* the handler executes a statement on connection c
ExecStatement(t, c, sql, stack_str, duration, ok) ==
    ExecStatementWithin(t, c, sql, stack_str, duration, ok, MaxStmts)

\* the handler returns a response
HandlerReturn(t, response) ==
    /\ rq[t].pc = "handling"
    /\ rq' = [rq EXCEPT ![t].pending = <<response>>,
                        ![t].pc = IF rq[t].instrumented THEN "exiting" ELSE "copy"]
    /\ UNCHANGED <<settings, mw, startup, conns, wrappers>>

\* an error that is replaced by another one on its way out
PropagateReplaced(call, e) ==
    [call EXCEPT !.pc = "done",
                 !.raised = <<[type |-> "RuntimeError", arg |-> e.type]>>]

\* an error that leaves _get_response and __call__
Propagate(call, e) == [call EXCEPT !.pc = "done", !.raised = <<e>>]

\* a middleware that times the handler in a try/finally: the request
\* duration is put into the bag although the handler raised
HandlerRaiseTimed(t, e) ==
    /\ rq[t].pc = "handling"
    /\ rq' = [rq EXCEPT ![t] =
                IF rq[t].instrumented
                THEN [@ EXCEPT !.pc = "exiting", !.exc = <<e>>,
                               !.handler_raised = <<e>>,
                               !.metrics = put(@, REQUEST_TIME, 0)]
                ELSE Propagate([@ EXCEPT !.handler_raised = <<e>>,
                                         !.metrics = put(@, REQUEST_TIME, 0)], e)]
    /\ UNCHANGED <<settings, mw, startup, conns, wrappers>>

\* the handler raises
HandlerRaise(t, e) ==
    /\ rq[t].pc = "handling"
    /\ rq' = [rq EXCEPT ![t] =
                IF rq[t].instrumented
                THEN [@ EXCEPT !.pc = "exiting", !.exc = <<e>>,
                               !.handler_raised = <<e>>]
                ELSE Propagate([@ EXCEPT !.handler_raised = <<e>>], e)]
    /\ UNCHANGED <<settings, mw, startup, conns, wrappers>>

\* ExitStack.__exit__: the context entered last is left
Detach(t) ==
    /\ rq[t].pc = "exiting"
    /\ rq[t].entered > 0
    /\ LET c == rq[t].entered
       IN  /\ wrappers' = [wrappers EXCEPT ![c] = ExitWrapper(@)]
           /\ rq' = [rq EXCEPT ![t].entered = c - 1,
                               ![t].popped =
                                   Append(@, [conn |-> c,
                                              wrapper |-> wrappers[c][Len(wrappers[c])]])]
    /\ UNCHANGED <<settings, mw, startup, conns>>

\* the with statement is left once the ExitStack is empty: the error in
\* flight, if any, goes on
LeaveWith(t) ==
    /\ rq[t].pc = "exiting"
    /\ rq[t].entered = 0
    /\ rq' = [rq EXCEPT ![t] =
                IF rq[t].exc # <<>>
                THEN Propagate([@ EXCEPT !.exc = <<>>], rq[t].exc[1])
                ELSE [@ EXCEPT !.pc = "copy"]]
    /\ UNCHANGED <<settings, mw, startup, conns, wrappers>>

\* lines 162-164
CopyStats(metrics, query_stats) ==
    put(put(put(metrics, QUERY_COUNT, query_count(query_stats)),
            QUERY_TIME, total_duration(query_stats)),
        ALL_QUERY_DETAILS, all_queries(query_stats))

\* a middleware that keeps the bag of the request on the instance
CopyMetricsOnSelf(t, overhead) ==
    /\ rq[t].pc = "copy"
    /\ LET m == IF rq[t].instrumented
                THEN CopyStats(rq[t].metrics, rq[t].query_stats)
                ELSE rq[t].metrics
           elapsed == SumSeq([i \in 1..Len(rq[t].executed) |->
                                rq[t].executed[i].duration]) + overhead
       IN  /\ rq' = [rq EXCEPT ![t].metrics = put(m, REQUEST_TIME, Round2(elapsed)),
                               ![t].pc = "respond"]
           /\ mw' = [state |-> mw.state, self |-> mw.self,
                     configured |-> mw.configured, metrics |-> rq'[t].metrics]
    /\ UNCHANGED <<settings, startup, conns, wrappers>>

\* lines 162-170: the metrics are filled in; the request took the time of its
\* statements and `overhead` more
CopyMetrics(t, overhead) ==
    /\ rq[t].pc = "copy"
    /\ LET elapsed == SumSeq([i \in 1..Len(rq[t].executed) |->
                                rq[t].executed[i].duration]) + overhead
           m == IF rq[t].instrumented
                THEN CopyStats(rq[t].metrics, rq[t].query_stats)
                ELSE rq[t].metrics
       IN  rq' = [rq EXCEPT ![t].metrics = put(m, REQUEST_TIME, Round2(elapsed)),
                            ![t].pc = "respond"]
    /\ UNCHANGED <<settings, mw, startup, conns, wrappers>>

\* lines 126-137: the status code is read and the request is logged
LogRequest(t) ==
    /\ rq[t].pc = "respond"
    /\ LET self == mw.self
           response == rq[t].pending[1]
           sc == GetStatusCode(self, response)
           done == DoLogging(self, rq[t].request[1], sc.status_code,
                             rq[t].metrics, response.content_type)
       IN  rq' = [rq EXCEPT ![t] =
                IF ~self.is_active
                THEN [@ EXCEPT !.pc = "logged"]
                ELSE IF done.err # <<>>
                THEN Propagate([@ EXCEPT !.status_code = sc.status_code,
                                         !.logs = sc.lines \o done.lines],
                               done.err[1])
                ELSE [@ EXCEPT !.status_code = sc.status_code,
                               !.logs = sc.lines \o done.lines,
                               !.pc = "logged"]]
    /\ UNCHANGED <<settings, mw, startup, conns, wrappers>>

\* a middleware that returns a copy of the response with another status
ReturnValueAltered(response) == [response EXCEPT !.status_code = 200, !.has_status_code = TRUE]

\* lines 128 and 139: return response
ReturnValue(response) == response

Return(t) ==
    /\ rq[t].pc = "logged"
    /\ rq' = [rq EXCEPT ![t].pc = "done",
                        ![t].result = <<ReturnValue(rq[t].pending[1])>>]
    /\ UNCHANGED <<settings, mw, startup, conns, wrappers>>

\* QueryStats.__init__ outside any request: the recorder of slot t, one
\* recorder at a time
NewRecorder(t, track_details) ==
    /\ \A u \in Slots : rq[u] = IdleCall
    /\ rq' = [rq EXCEPT ![t].query_stats = NewQueryStats(track_details)]
    /\ UNCHANGED <<settings, mw, startup, conns, wrappers>>

\* QueryStats.__call__ on that recorder: Django routes a statement through it
Intercept(t, call, stack_str, duration, outcome) ==
    /\ \A u \in Slots : rq[u].pc = "idle" /\ (u # t => rq[u] = IdleCall)
    /\ rq[t].metrics = NewMetrics
    /\ Len(rq[t].intercepts) < MaxCalls
    /\ LET r == QueryStatsInvoke(rq[t].query_stats, call, stack_str, duration, outcome)
       IN  rq' = [rq EXCEPT
                ![t].query_stats = r.qs,
                ![t].intercepts =
                    Append(@, [call |-> call, duration |-> duration,
                               outcome |-> outcome, passed |-> r.passed,
                               returned |-> r.returned, raised |-> r.raised,
                               durations |-> r.qs.query_durations])]
    /\ UNCHANGED <<settings, mw, startup, conns, wrappers>>

\* Metrics.put called on a bag of its own, outside any request: the bag of
\* slot t, one bag at a time
MetricsPut(t, k, v) ==
    /\ \A u \in Slots : rq[u].pc = "idle" /\ (u # t => rq[u] = IdleCall)
    /\ rq[t].query_stats = NewQueryStats(FALSE)
    /\ rq' = [rq EXCEPT ![t].metrics = put(@, k, v)]
    /\ UNCHANGED <<settings, mw, startup, conns, wrappers>>

\* the call is over: its request, bag and recorder are dropped
Finish(t) ==
    /\ rq[t].pc = "done"
    /\ rq' = [rq EXCEPT ![t] = IdleCall]
    /\ UNCHANGED <<settings, mw, startup, conns, wrappers>>

\* the steps of a call once it has started, the handler drawing its
\* responses, statement durations and statement outcomes from the given sets
Step(t, Resps, Durs, Oks) ==
    \/ Attach(t)
    \/ InvokeHandler(t)
    \/ \E c \in 1..MaxConns, sql \in Sqls, s \in CallSites, d \in Durs, ok \in Oks :
          ExecStatement(t, c, sql, s, d, ok)
    \/ \E resp \in Resps : HandlerReturn(t, resp)
    \/ \E e \in HandlerErrors : HandlerRaise(t, e)
    \/ Detach(t)
    \/ LeaveWith(t)
    \/ \E o \in Overheads : CopyMetrics(t, o)
    \/ LogRequest(t)
    \/ Return(t)

\* ------------------------------------------------------ specifications
\* One worker, the calls running one after the other, over every
\* instrumentation setting, number of connections and handler behaviour.
InstrumentationSettings ==
    {s \in SettingsSpace : /\ s.PDU_REQUEST_LOG_LEVEL = <<>>
                           /\ s.PDU_REQUEST_LOGGER = <<>>}

Init == InitWith(InstrumentationSettings, 0..MaxConns, {<<>>, <<Outer>>})

Next ==
    \/ Construct
    \/ \E t \in Slots :
        \/ BeginAlone(t, PlainRequest)
        \/ AttachFail(t)
        \/ Step(t, Responses, Durations, BOOLEAN)
        \/ Finish(t)

Spec == Init /\ [][Next]_vars

\* One worker, the calls running one after the other, over every log level
\* setting, request metadata and response.
LoggingSettings ==
    {s \in SettingsSpace : /\ s.PDU_REQUEST_LOGGING_ACTIVE = <<>>
                           /\ s.PDU_REQUEST_LOGGER = <<>>}

InitLog == InitWith(LoggingSettings, {1}, {<<>>})

NextLog ==
    \/ Construct
    \/ \E t \in Slots :
        \/ \E r \in Requests : BeginAlone(t, r)
        \/ AttachFail(t)
        \/ Step(t, Responses, {1}, {TRUE})
        \/ Finish(t)

SpecLog == InitLog /\ [][NextLog]_vars

\* Several workers over the same connection objects, one call each, the
\* calls running concurrently; every attach succeeds.
InitShared == InitWith({DefaultSettings}, {MaxConns}, {<<>>})

NextShared ==
    \/ Construct
    \/ \E t \in Slots :
        \/ Begin(t, PlainRequest)
        \/ Step(t, {OkResponse}, {1}, {TRUE})

SpecShared == InitShared /\ [][NextShared]_vars

\* One worker, the calls running one after the other, the settings changing
\* while the middleware is installed.
ConfigSettings ==
    {s \in SettingsSpace : /\ s.PDU_REQUEST_LOGGING_ACTIVE # <<TRUE>>
                           /\ s.PDU_REQUEST_LOG_LEVEL # <<PyNone>>}

InitConfig == InitWith(ConfigSettings, {1}, {<<>>})

NextConfig ==
    \/ Construct
    \/ \E s \in ConfigSettings : ChangeSettings(s)
    \/ \E t \in Slots :
        \/ BeginAlone(t, PlainRequest)
        \/ Step(t, {OkResponse}, {1}, {TRUE})
        \/ Finish(t)

SpecConfig == InitConfig /\ [][NextConfig]_vars

\* One worker, the calls running one after the other with detailed
\* diagnostics on, over several statement texts, call sites and thresholds.
DetailSettings ==
    {[DefaultSettings EXCEPT
        !.REQUEST_LOGGING_DETAILED_DB_QUERY_DIAGNOSTICS_THRESHOLD = th] :
            th \in {<<>>, <<1>>, <<3>>}}

DetailSqls == {"SELECT 1", "SELECT 2"}

DetailSites == {"A", "B"}

InitDetail == InitWith(DetailSettings, {1}, {<<>>})

NextDetail ==
    \/ Construct
    \/ \E t \in Slots :
        \/ BeginAlone(t, PlainRequest)
        \/ Attach(t)
        \/ InvokeHandler(t)
        \/ \E sql \in DetailSqls, s \in DetailSites :
              ExecStatementWithin(t, 1, sql, s, 1, TRUE, MaxDetailStmts)
        \/ HandlerReturn(t, OkResponse)
        \/ Detach(t)
        \/ LeaveWith(t)
        \/ CopyMetrics(t, 3)
        \/ LogRequest(t)
        \/ Return(t)
        \/ Finish(t)

SpecDetail == InitDetail /\ [][NextDetail]_vars

\* A recorder on its own: any sequence of statements routed through it, each
\* succeeding or failing.
RecorderCalls ==
    {[sql |-> sql, params |-> pm[1], many |-> pm[2], context |-> "connection"] :
        sql \in DetailSqls, pm \in {<< <<>>, FALSE >>, << <<1>>, TRUE >>}}

ExecuteOutcomes == {Ok("cursor result"), Fail([type |-> "DatabaseError", arg |-> "db"])}

InitRecorder == InitWith({DefaultSettings}, {0}, {<<>>})

NextRecorder ==
    \E t \in Slots :
        \/ NewRecorder(t, TRUE)
        \/ \E call \in RecorderCalls, s \in DetailSites, o \in ExecuteOutcomes :
              Intercept(t, call, s, 1, o)

SpecRecorder == InitRecorder /\ [][NextRecorder]_vars

\* A Metrics bag on its own: any keys, any values, put in any order.
OtherKey == "request_id"

MetricKeys == LOGGABLE_METRICS \cup {ALL_QUERY_DETAILS, OtherKey}

MetricValues == {0, 7}

InitMetrics == InitWith({DefaultSettings}, {0}, {<<>>})

NextMetrics ==
    \E t \in Slots, k \in MetricKeys, v \in MetricValues : MetricsPut(t, k, v)

SpecMetrics == InitMetrics /\ [][NextMetrics]_vars

\* ------------------------------------------------------------ properties
\* the slots whose recorder is on connection c's execute_wrappers
OnList(c) == {wrappers[c][i] : i \in 1..Len(wrappers[c])}

Installed(t) == \E c \in 1..MaxConns : t \in OnList(c)

SeqOf(s, f) == [i \in 1..Len(s) |-> s[i][f]]

\* the metadata KeyErrors of parse_log and do_logging
MetadataKeys == {"environ", "resolver_match", "request_method", "uri"}

\* C1: once a call with DB instrumentation enabled has finished, by a
\* returned response or by an error, its recorder is on no connection and
\* every connection's execute_wrappers is what it was when the call started.
C1_NoLingeringRecorder ==
    \A t \in Slots :
        (rq[t].pc = "done" /\ rq[t].instrumented)
            => /\ ~Installed(t)
               /\ wrappers = rq[t].before

\* C1 witness: a call whose handler raised, after the recorder had been
\* attached to two connections that already held another wrapper, is over.
C1_Witness ==
    \E t \in Slots :
        /\ rq[t].pc = "done" /\ rq[t].instrumented
        /\ rq[t].handler_raised # <<>>
        /\ Len(rq[t].attached) >= 2
        /\ rq[t].before[1] = <<Outer>>

\* C2: an error the handler raised is never followed by anything but the
\* detaches, and the call ends by raising that very error, with every
\* attached connection detached and no response returned.
C2_HandlerErrorPropagates ==
    \A t \in Slots :
        rq[t].handler_raised # <<>>
            => /\ rq[t].pc \in {"exiting", "done"}
               /\ rq[t].logs = <<>>
               /\ rq[t].result = <<>>
               /\ rq[t].pc = "exiting" => rq[t].exc = rq[t].handler_raised
               /\ rq[t].pc = "done"
                    => /\ rq[t].raised = rq[t].handler_raised
                       /\ rq[t].entered = 0
                       /\ SeqOf(rq[t].popped, "conn")
                            = [i \in 1..Len(rq[t].attached) |->
                                 rq[t].attached[Len(rq[t].attached) + 1 - i]]
                       /\ ~Installed(t)

\* C2 witness: a call whose handler raised after executing a statement, with
\* the recorder on two connections, has ended.
C2_Witness ==
    \E t \in Slots :
        /\ rq[t].pc = "done"
        /\ rq[t].handler_raised # <<>>
        /\ rq[t].raised = rq[t].handler_raised
        /\ Len(rq[t].popped) >= 2
        /\ rq[t].executed # <<>>

\* C3: when the attach on the K-th connection fails, the handler is never
\* invoked, and the call ends with the attach's error after the recorder was
\* detached from the K-1 connections attached before, none keeping it.
C3_PartialAttachTornDown ==
    \A t \in Slots :
        rq[t].failed_at > 0
            => /\ rq[t].handler_calls = <<>>
               /\ rq[t].pc \in {"exiting", "done"}
               /\ rq[t].attached = [i \in 1..(rq[t].failed_at - 1) |-> i]
               /\ rq[t].pc = "done"
                    => /\ rq[t].raised = <<AttachError>>
                       /\ Len(rq[t].popped) = rq[t].failed_at - 1
                       /\ \A i \in 1..Len(rq[t].popped) :
                            /\ rq[t].popped[i].wrapper = t
                            /\ rq[t].popped[i].conn = rq[t].failed_at - i
                       /\ ~Installed(t)
                       /\ wrappers = rq[t].before

\* C3 witness: the attach on the second of two connections failed and the
\* call is over.
C3_Witness ==
    \E t \in Slots :
        /\ rq[t].pc = "done"
        /\ rq[t].failed_at = 2
        /\ Len(rq[t].popped) = 1

\* C4: with DB instrumentation enabled the recorder holds one duration per
\* statement the handler executed, in execution order, whether the statement
\* succeeded or raised, and the query count and query time stored in the
\* metrics are the number of those statements and the sum of their durations.
C4_QueryCountIsStatements ==
    \A t \in Slots :
        rq[t].instrumented
            => /\ rq[t].query_stats.query_durations = SeqOf(rq[t].executed, "duration")
               /\ rq[t].pc \in {"respond", "logged"}
                    => /\ QUERY_COUNT \in DOMAIN get_all(rq[t].metrics)
                       /\ get_all(rq[t].metrics)[QUERY_COUNT] = Len(rq[t].executed)
                       /\ get_all(rq[t].metrics)[QUERY_TIME]
                            = SumSeq(SeqOf(rq[t].executed, "duration"))
               /\ QUERY_COUNT \in DOMAIN get_all(rq[t].metrics)
                    => get_all(rq[t].metrics)[QUERY_COUNT] = Len(rq[t].executed)

\* C4 witness: the metrics of a request hold a count of 2 after a statement
\* that raised followed by a shorter one that succeeded.
C4_Witness ==
    \E t \in Slots :
        /\ rq[t].instrumented
        /\ QUERY_COUNT \in DOMAIN get_all(rq[t].metrics)
        /\ get_all(rq[t].metrics)[QUERY_COUNT] = 2
        /\ rq[t].executed = << [duration |-> 2, ok |-> FALSE],
                               [duration |-> 1, ok |-> TRUE] >>

\* C5: under every interleaving of concurrent calls over shared connections,
\* a recorder is on a connection's execute_wrappers only between its own
\* call's attach to that connection and that call's teardown, every detach
\* removes the recorder of the call that detaches, and no recorder is removed
\* from a connection twice.
C5_ScopedAttachDetach ==
    \A t \in Slots :
        /\ \A c \in 1..MaxConns :
              t \in OnList(c)
                 => /\ rq[t].pc \in {"instrumenting", "handling", "exiting"}
                    /\ c <= rq[t].entered
        /\ \A i \in 1..Len(rq[t].popped) : rq[t].popped[i].wrapper = t
        /\ \A c \in 1..MaxConns :
              Cardinality({<<u, i>> \in Slots \X (1..MaxConns) :
                              /\ i <= Len(rq[u].popped)
                              /\ rq[u].popped[i] = [conn |-> c, wrapper |-> t]}) <= 1

\* C6 as stated: every finished call invoked the handler exactly once, with
\* the original request, and a returned value is the handler's response.
C6_HandlerInvokedExactlyOnce ==
    \A t \in Slots :
        rq[t].pc = "done"
            => /\ rq[t].handler_calls = rq[t].request
               /\ rq[t].result # <<>> => rq[t].result = rq[t].pending

\* C6 amended: the handler is invoked at most once and only with the
\* original request; a finished call invoked it exactly once unless an attach
\* failed, in which case it was not invoked; a returned value is the response
\* object the handler returned, unaltered.
C6_HandlerInvokedOnceUnlessAttachFails ==
    \A t \in Slots :
        /\ Len(rq[t].handler_calls) <= 1
        /\ rq[t].handler_calls # <<>> => rq[t].handler_calls = rq[t].request
        /\ rq[t].pc \in {"handling", "copy", "respond", "logged"}
             => Len(rq[t].handler_calls) = 1
        /\ rq[t].pc = "done"
             => Len(rq[t].handler_calls) = (IF rq[t].failed_at > 0 THEN 0 ELSE 1)
        /\ rq[t].result # <<>>
             => /\ rq[t].pending # <<>>
                /\ rq[t].result = rq[t].pending

\* C6 witness: a call returned a response whose status is 404.
C6_Witness ==
    \E t \in Slots :
        /\ rq[t].pc = "done"
        /\ rq[t].result # <<>>
        /\ rq[t].result[1].status_code = 404
        /\ Len(rq[t].handler_calls) = 1

\* C10: construction ends with MiddlewareNotUsed exactly when the active flag
\* is configured false; it succeeds when the flag is true or not configured;
\* no call ever runs in a middleware that is not active.
C10_InactiveIsNotInstalled ==
    /\ mw.state # "none"
         => /\ settings.PDU_REQUEST_LOGGING_ACTIVE = <<FALSE>> <=> mw.state = "not_used"
            /\ settings.PDU_REQUEST_LOGGING_ACTIVE \in {<<>>, <<TRUE>>}
                 <=> mw.state = "installed"
    /\ \A t \in Slots : rq[t].pc # "idle" => (mw.state = "installed" /\ mw.self.is_active)

\* C10 witness: the middleware was constructed with the active flag false.
C10_Witness ==
    /\ mw.state = "not_used"
    /\ settings.PDU_REQUEST_LOGGING_ACTIVE = <<FALSE>>
    /\ startup # <<>>

\* the severity the documentation derives from a status
DerivedLevel(status_code) ==
    IF status_code >= 500 THEN ERROR
    ELSE IF status_code >= 400 THEN WARNING
    ELSE INFO

RequestLines(t) == SelectSeq(rq[t].logs, LAMBDA l : l.kind = "request")

\* C7: the severity of a request's log line is the configured level when a
\* level is configured, and otherwise (no level configured, the default) is
\* derived from the status: INFO below 400, WARNING for 400-499, ERROR from 500.
C7_SeverityFromStatusByDefault ==
    \A t \in Slots :
        \A i \in 1..Len(RequestLines(t)) :
            LET configured == settings.PDU_REQUEST_LOG_LEVEL
                line == RequestLines(t)[i]
            IN  IF configured # <<>> /\ configured[1] # PyNone
                THEN line.level = configured[1]
                ELSE rq[t].status_code # PyNone
                        => line.level = DerivedLevel(rq[t].status_code)

\* a request without environment info, or without route-resolution info
LacksEnviron(request) == request.environ = <<>> \/ DOMAIN request.environ[1] = {}
LacksRoute(request) == request.resolver_match = <<>> \/ request.resolver_match[1].is_none

\* C8: when the handler returned a response and the request carries no
\* environment info or no route-resolution info, the call does not end with
\* an error caused by the missing metadata, and when it returns, the compact
\* line was logged.
C8_MissingMetadataTolerated ==
    \A t \in Slots :
        (/\ rq[t].pc = "done"
         /\ rq[t].pending # <<>>
         /\ LacksEnviron(rq[t].request[1]) \/ LacksRoute(rq[t].request[1]))
            => /\ ~(/\ rq[t].raised # <<>>
                    /\ rq[t].raised[1].type = "KeyError"
                    /\ rq[t].raised[1].arg \in MetadataKeys)
               /\ rq[t].result # <<>> => RequestLines(t) # <<>>

\* C9: when the handler returned a response without a status code, a warning
\* was logged, the call does not end with an error caused by the missing
\* status, and when it returns, the request line was logged with the unknown
\* status, whatever the log level configuration.
C9_MissingStatusTolerated ==
    \A t \in Slots :
        (/\ rq[t].pc = "done"
         /\ rq[t].pending # <<>>
         /\ ~rq[t].pending[1].has_status_code)
            => /\ \E i \in 1..Len(rq[t].logs) :
                    rq[t].logs[i].kind = "no_status" /\ rq[t].logs[i].level = WARNING
               /\ ~(rq[t].raised # <<>> /\ rq[t].raised[1].type = "TypeError")
               /\ rq[t].result # <<>>
                    => /\ Len(RequestLines(t)) = 1
                       /\ RequestLines(t)[1].body[3] = PyNone

\* C11: every configuration toggle is read once, at construction: a call
\* that runs after a setting has changed behaves as under the settings in
\* force at construction: it instruments the connections, tracks details,
\* and logs to the logger and at the level those settings give.
C11_ConfigReadOnceAtConstruction ==
    \A t \in Slots :
        rq[t].pc # "idle"
            => LET asbuilt == NewMiddleware(mw.configured)
               IN  /\ rq[t].instrumented
                        = Getattr(mw.configured, "DB_INSTRUMENTATION_ENABLED", TRUE)
                   /\ rq[t].instrumented
                        => rq[t].query_stats.track_details
                             = asbuilt.detailed_db_query_diagnostics_active
                   /\ \A i \in 1..Len(rq[t].logs) :
                        /\ rq[t].logs[i].logger = asbuilt._logger
                        /\ (Truthy(asbuilt._level) /\ rq[t].logs[i].kind # "no_status")
                             => rq[t].logs[i].level = asbuilt._level

\* C15 as stated: constructing the middleware emits exactly one startup
\* notice, at warning severity, to the configured logger when one is
\* configured and to the root logger otherwise, whatever the active flag.
C15_StartupNoticeToChosenLogger ==
    mw.state # "none"
        => /\ Len(startup) = 1
           /\ startup[1].kind = "start"
           /\ startup[1].level = WARNING
           /\ startup[1].logger = Getattr(mw.configured, "PDU_REQUEST_LOGGER", "root")

\* C15, amended: constructing the middleware emits exactly one startup
\* notice, at warning severity, to the root logger whatever logger is
\* configured; the notice names the level, the configured logger and the
\* active flag, and it is emitted whether the active flag is true or false.
C15_StartupNoticeToRootLogger ==
    /\ mw.state = "none" => startup = <<>>
    /\ mw.state # "none"
        => LET asbuilt == NewMiddleware(mw.configured)
           IN  /\ Len(startup) = 1
               /\ startup[1].kind = "start"
               /\ startup[1].level = WARNING
               /\ startup[1].logger = "root"
               /\ startup[1].body
                    = <<asbuilt._level, asbuilt._logger, asbuilt.is_active>>
               /\ (mw.state = "not_used") = ~asbuilt.is_active

C15_Witness ==
    /\ mw.state = "not_used"
    /\ mw.configured.PDU_REQUEST_LOGGER = <<AppLogger>>
    /\ Len(startup) = 1
    /\ startup[1].logger = "root"
    /\ startup[1].body[2] = AppLogger

\* the text of the loggable keys of a dict d, written out key by key in
\* ascending order of the keys' text
ExpectedLogString(d) ==
    LET has(k) == k \in DOMAIN d
        part(k) == k \o "=" \o ToString(d[k])
        c == IF has(QUERY_COUNT) THEN <<part(QUERY_COUNT)>> ELSE <<>>
        q == IF has(QUERY_TIME) THEN <<part(QUERY_TIME)>> ELSE <<>>
        r == IF has(REQUEST_TIME) THEN <<part(REQUEST_TIME)>> ELSE <<>>
        ps == c \o q \o r
    IN  CASE Len(ps) = 0 -> ""
          [] Len(ps) = 1 -> ps[1]
          [] Len(ps) = 2 -> ps[1] \o ", " \o ps[2]
          [] Len(ps) = 3 -> ps[1] \o ", " \o ps[2] \o ", " \o ps[3]

\* C12: whatever keys and values were put into a Metrics bag, in whatever
\* order, as_log_string is the text key=value of exactly the stored loggable
\* keys, in ascending key order, joined by ", ": it depends on the stored
\* keys and values only, and db_query_details and other keys are not in it.
C12_LogStringSortedLoggableOnly ==
    \A t \in Slots :
        rq[t].pc = "idle"
            => as_log_string(rq[t].metrics) = ExpectedLogString(get_all(rq[t].metrics))

C12_Witness ==
    \E t \in Slots :
        /\ rq[t].pc = "idle"
        /\ SeqOf(rq[t].metrics, "k")
             = <<REQUEST_TIME, OtherKey, QUERY_TIME, ALL_QUERY_DETAILS, QUERY_COUNT>>
        /\ as_log_string(rq[t].metrics)
             = "db_query_count=7, db_query_time_ms=0, duration_ms=7"

\* C16: whether DB instrumentation and detailed diagnostics are on or off,
\* every metrics key the request flow reads was put into the bag earlier in
\* the request: a call whose handler returned a response never ends in a
\* KeyError for a metrics key.
C16_MetricsKeysWrittenBeforeRead ==
    \A t \in Slots :
        rq[t].pending # <<>>
            => ~(/\ rq[t].raised # <<>>
                 /\ rq[t].raised[1].type = "KeyError"
                 /\ rq[t].raised[1].arg
                      \in {QUERY_COUNT, QUERY_TIME, REQUEST_TIME, ALL_QUERY_DETAILS})

\* how often the handler of call t executed sql, and how often from one site
Count(t, sql) ==
    Cardinality({i \in 1..Len(rq[t].issued) : rq[t].issued[i].sql = sql})

SiteCount(t, sql, site) ==
    Cardinality({i \in 1..Len(rq[t].issued) :
                    rq[t].issued[i].sql = sql /\ rq[t].issued[i].stack = site})

\* the positions of the lines of one kind among the lines logged for call t
LinesOfKind(t, kind) ==
    {i \in 1..Len(rq[t].logs) : rq[t].logs[i].kind = kind}

\* the position after the block of the statement line at position i: the next
\* statement line, or the end of the lines
BlockEnd(t, i) ==
    LET later == {j \in LinesOfKind(t, "query") : j > i}
    IN  IF later = {} THEN Len(rq[t].logs) + 1
        ELSE CHOOSE j \in later : \A k \in later : j <= k

\* C13: with detailed diagnostics enabled the detailed output of a request
\* is one header line, then one statement line for each distinct statement
\* text executed more often than the threshold and for no other, in
\* descending order of total count; each statement line is followed by the
\* statement's call sites in descending order of their counts, and the total
\* on the statement line is the sum of the call sites' counts.
C13_DetailedOutput ==
    \A t \in Slots :
        (/\ rq[t].pc \in {"logged", "done"}
         /\ rq[t].instrumented
         /\ mw.self.detailed_db_query_diagnostics_active)
            => LET L == rq[t].logs
                   th == mw.self.detailed_db_query_diagnostics_threshold
                   Q == LinesOfKind(t, "query")
               IN  /\ SeqOf(SubSeq(L, 1, 2), "kind") = <<"request", "detail_header">>
                   /\ Cardinality(LinesOfKind(t, "detail_header")) = 1
                   /\ \A sql \in DetailSqls :
                        Cardinality({i \in Q : L[i].body[2] = sql})
                            = (IF Count(t, sql) > th THEN 1 ELSE 0)
                   /\ \A i \in Q :
                        /\ L[i].body[1] = Count(t, L[i].body[2])
                        /\ \A j \in Q : i < j => L[i].body[1] >= L[j].body[1]
                   /\ \A i \in Q :
                        LET sql == L[i].body[2]
                            n == (BlockEnd(t, i) - i - 1) \div 2
                            cnt(k) == L[i + 2 * k - 1]
                            stk(k) == L[i + 2 * k]
                        IN  /\ BlockEnd(t, i) - i - 1 = 2 * n
                            /\ \A k \in 1..n :
                                 /\ cnt(k).kind = "location_count"
                                 /\ stk(k).kind = "location_stack"
                                 /\ cnt(k).body[1] = SiteCount(t, sql, stk(k).body[1])
                                 /\ \A m \in 1..n :
                                      /\ k < m => cnt(k).body[1] >= cnt(m).body[1]
                                      /\ k # m => stk(k).body[1] # stk(m).body[1]
                            /\ {stk(k).body[1] : k \in 1..n}
                                 = {site \in DetailSites : SiteCount(t, sql, site) > 0}
                            /\ SumSeq([k \in 1..n |-> cnt(k).body[1]]) = L[i].body[1]

\* 3 statements from A and 2 from B, B first: total 5, then A before B
C13_Witness ==
    \E t \in Slots :
        /\ rq[t].pc = "done"
        /\ rq[t].result # <<>>
        /\ SeqOf(rq[t].issued, "stack") = <<"B", "A", "A", "B", "A">>
        /\ \A i \in 1..Len(rq[t].issued) : rq[t].issued[i].sql = "SELECT 1"
        /\ SeqOf(rq[t].logs, "kind")
             = <<"request", "detail_header", "query", "location_count",
                 "location_stack", "location_count", "location_stack">>
        /\ rq[t].logs[3].body = <<5, "SELECT 1">>
        /\ rq[t].logs[4].body = <<3>>
        /\ rq[t].logs[5].body = <<"A">>
        /\ rq[t].logs[6].body = <<2>>
        /\ rq[t].logs[7].body = <<"B">>

C17_ExecuteOnceResultAndErrorPassedOn ==
    \A t \in Slots :
        \A i \in 1..Len(rq[t].intercepts) :
            LET x == rq[t].intercepts[i]
            IN  /\ x.passed = << x.call >>
                /\ x.outcome.err = <<>>
                    => /\ x.returned = << x.outcome.val >>
                       /\ x.raised = <<>>
                /\ x.outcome.err # <<>>
                    => /\ x.raised = x.outcome.err
                       /\ x.returned = <<>>
                       /\ Len(x.durations) = i
                       /\ x.durations[i] = x.duration

C17_Witness ==
    \E t \in Slots :
        /\ Len(rq[t].intercepts) = 2
        /\ rq[t].intercepts[1].returned = << "cursor result" >>
        /\ rq[t].intercepts[1].call.many
        /\ rq[t].intercepts[2].raised # <<>>
        /\ rq[t].intercepts[2].raised[1].type = "DatabaseError"
        /\ ~rq[t].intercepts[2].call.many
        /\ Len(rq[t].query_stats.query_durations) = 2

\* C18: after any sequence of completed calls of one recorder, successful or
\* failing: with detail tracking on, each statement text's total count is
\* the sum of its call sites' counts and the total counts add up to the
\* number of duration entries; with detail tracking off, the diagnostic
\* mapping is empty; in both cases there is one duration entry per call.
C18_RecorderCountsAgree ==
    \A t \in Slots :
        LET qs == rq[t].query_stats
        IN  /\ Len(qs.query_durations) = Len(rq[t].intercepts)
            /\ qs.track_details
                => /\ \A i \in 1..Len(qs.queries) :
                        qs.queries[i].total_number
                            = SumSeq(SeqOf(qs.queries[i].stacks, "n"))
                   /\ SumSeq(SeqOf(qs.queries, "total_number"))
                        = Len(qs.query_durations)
                   /\ \A i, j \in 1..Len(qs.queries) :
                        qs.queries[i].sql = qs.queries[j].sql => i = j
            /\ ~qs.track_details => qs.queries = <<>>

C18_Witness ==
    \E t \in Slots :
        LET qs == rq[t].query_stats
        IN  /\ qs.track_details
            /\ Len(rq[t].intercepts) = 3
            /\ rq[t].intercepts[2].raised # <<>>
            /\ Len(qs.queries) = 1
            /\ qs.queries[1].total_number = 3
            /\ SeqOf(qs.queries[1].stacks, "n") = <<2, 1>>

\* the keys the bag of call t holds
MetricsHeld(t) == DOMAIN get_all(rq[t].metrics)

\* C19: within a request the recorder's count, time and detail are copied
\* into the bag only once the recorder is detached from every connection,
\* the request line is logged after that copy, a call whose handler returned
\* logs exactly one request line, and the response is returned only after
\* the logging.
C19_StepsInOrder ==
    \A t \in Slots :
        /\ (MetricsHeld(t) \cap {QUERY_COUNT, QUERY_TIME, ALL_QUERY_DETAILS}) # {}
            => /\ rq[t].entered = 0
               /\ Len(rq[t].popped) = Len(rq[t].attached)
               /\ ~Installed(t)
        /\ rq[t].logs # <<>>
            => /\ REQUEST_TIME \in MetricsHeld(t)
               /\ rq[t].instrumented => QUERY_COUNT \in MetricsHeld(t)
        /\ Len(RequestLines(t)) <= 1
        /\ (rq[t].pc \in {"logged", "done"} /\ rq[t].pending # <<>>)
            => Len(RequestLines(t)) = 1
        /\ rq[t].result # <<>>
            => /\ Len(RequestLines(t)) = 1
               /\ rq[t].result = rq[t].pending

\* C20: when the handler raises, the call never copies metrics nor logs: no
\* request line and no diagnostics line is emitted for it, its bag stays
\* empty, and once it has ended the wrapper lists are what they were when it
\* started, each connection attached having been detached.
C20_HandlerErrorSkipsLogging ==
    \A t \in Slots :
        rq[t].handler_raised # <<>>
            => /\ rq[t].pc \notin {"copy", "respond", "logged"}
               /\ rq[t].pending = <<>>
               /\ \A kind \in {"request", "detail_header", "query",
                                "location_count", "location_stack", "no_status"} :
                    LinesOfKind(t, kind) = {}
               /\ MetricsHeld(t) = {}
               /\ rq[t].status_code = PyNone
               /\ rq[t].pc = "done"
                    => /\ wrappers = rq[t].before
                       /\ Len(rq[t].popped) = Len(rq[t].attached)
                       /\ rq[t].instrumented => Len(rq[t].attached) = conns

C20_Witness ==
    \E t \in Slots :
        /\ rq[t].pc = "done"
        /\ rq[t].handler_raised # <<>>
        /\ rq[t].instrumented
        /\ rq[t].attached = <<1, 2>>
        /\ Len(rq[t].executed) = 2
        /\ Len(rq[t].query_stats.query_durations) = 2
        /\ rq[t].metrics = NewMetrics
        /\ wrappers = rq[t].before

============================================================================
